---- MODULE Spec2Model ----
(***************************************************************************)
(* Combat core of the tower defense: wave director, enemy movement,        *)
(* targeting, projectiles, economy and the game phase.                     *)
(*                                                                         *)
(* Units.  Time is in milliseconds, lengths are in whole pixels, enemy     *)
(* speeds are in thousandths of a pixel per second.  The f32 arithmetic of *)
(* the source is carried out on integers with round-to-nearest; distances  *)
(* are compared through their squares.  The z coordinate of the sprites    *)
(* (1.0 for enemies, 1.5 for shots) is below one pixel and is left out.    *)
(***************************************************************************)
EXTENDS Integers, Sequences, FiniteSets, TLC

\* ------------------------------------------------------------------------
\* Program constants
\* ------------------------------------------------------------------------
MAX_ENEMIES_PER_WAVE == 25
SPAWN_Y_LOCATION == 70
SPAWN_X_LOCATION == 610
TIME_BETWEEN_WAVES == 15000
TIME_BETWEEN_SPAWNS == 1500
INITIAL_ENEMY_LIFE == 60
TOWER_ATTACK_RANGE == 250
DESPAWN_SHOT_RANGE == 800
SHOT_HURT_DISTANCE == 700
SHOT_SPEED == 700
INITIAL_PLAYER_GOLD == 95
MAX_LIFES == 30
\* wave_control.textures.len(): the four archetypes pushed by load_enemy_sprites
NumTextures == 4
\* Timer::from_seconds(0.05, Repeating) of a shot
SHOT_ANIMATION_TIME == 50
\* the atlas index at which a shot applies its damage
LAST_SHOT_FRAME == 7
\* the squared distance at which a shot that lost its target has arrived
ARRIVAL_DISTANCE == 50
\* the shot is created 40 px above its tower
SHOT_Y_OFFSET == 40
\* base speed 75 px/s, in thousandths of a pixel per second
BASE_ENEMY_SPEED == 75000
\* the speed cap 300 px/s
MAX_ENEMY_SPEED == 300000

BREAK_POINTS ==
    << [x |-> 260,  y |-> SPAWN_Y_LOCATION],
       [x |-> 260,  y |-> -205],
       [x |-> -230, y |-> -205],
       [x |-> -230, y |-> SPAWN_Y_LOCATION],
       [x |-> -455, y |-> SPAWN_Y_LOCATION],
       [x |-> -455, y |-> -375] >>

\* ------------------------------------------------------------------------
\* Arithmetic helpers
\* ------------------------------------------------------------------------
Min(a, b) == IF a < b THEN a ELSE b
Max(a, b) == IF a > b THEN a ELSE b

\* round-to-nearest division of an integer by a positive integer
RoundDiv(a, b) ==
    IF a >= 0 THEN (2 * a + b) \div (2 * b)
    ELSE -((2 * (-a) + b) \div (2 * b))

RECURSIVE SqrtIter(_, _, _)
\* the square root digit by digit: r is the root so far, bit the next binary digit
SqrtIter(n, r, bit) ==
    IF bit = 0 THEN r
    ELSE IF (r + bit) * (r + bit) <= n
    THEN SqrtIter(n, r + bit, bit \div 2)
    ELSE SqrtIter(n, r, bit \div 2)

\* floor of the square root, n < 2^30
ISqrt(n) == SqrtIter(n, 0, 16384)

\* nearest integer to the square root
RSqrt(n) == LET r == ISqrt(n) IN IF n - r * r > r THEN r + 1 ELSE r

DistSq(ax, ay, bx, by) == (ax - bx) * (ax - bx) + (ay - by) * (ay - by)

\* u16 / u8 saturating_sub
SaturatingSub(a, b) == IF a > b THEN a - b ELSE 0

RECURSIVE Pow(_, _)
Pow(b, e) == IF e = 0 THEN 1 ELSE b * Pow(b, e - 1)

\* ------------------------------------------------------------------------
\* Timer (the engine's Timer as used by the systems)
\* ------------------------------------------------------------------------
NewTimer == [elapsed |-> 0, finished |-> FALSE, times |-> 0, paused |-> FALSE]

\* Timer::tick(delta) for a timer of the given duration and mode
TimerTick(t, d, duration, repeating) ==
    IF t.paused
    THEN [t EXCEPT !.times = 0, !.finished = IF repeating THEN FALSE ELSE @]
    ELSE IF ~repeating /\ t.finished
    THEN [t EXCEPT !.times = 0]
    ELSE LET e == t.elapsed + d IN
         IF e >= duration
         THEN IF repeating
              THEN [t EXCEPT !.elapsed = e % duration, !.finished = TRUE,
                             !.times = e \div duration]
              ELSE [t EXCEPT !.elapsed = duration, !.finished = TRUE, !.times = 1]
         ELSE [t EXCEPT !.elapsed = e, !.finished = FALSE, !.times = 0]

TimerJustFinished(t) == t.times > 0
TimerPaused(t) == t.paused
TimerPause(t) == [t EXCEPT !.paused = TRUE]
TimerUnpause(t) == [t EXCEPT !.paused = FALSE]
TimerReset(t) == [t EXCEPT !.elapsed = 0, !.finished = FALSE, !.times = 0]

\* ------------------------------------------------------------------------
\* State
\* ------------------------------------------------------------------------
VARIABLES
    game_state,             \* State<GameState>: the phase the systems are gated on
    next_state,             \* NextState<GameState>: the transition signalled, or "None"
    wave_count,             \* WaveControl.wave_count
    spawned_count_in_wave,  \* WaveControl.spawned_count_in_wave
    first_wave_spawned,     \* WaveControl.first_wave_spawned
    time_between_waves,     \* WaveControl.time_between_waves (Once)
    time_between_spawns,    \* WaveControl.time_between_spawns (Repeating)
    lifes,                  \* Lifes
    gold,                   \* Gold
    enemies,                \* the Enemy entities, in query order
    shots,                  \* the Shot entities, in query order
    towers,                 \* the Tower entities, in query order
    commands,               \* deferred spawn / despawn commands of this frame
    next_entity,            \* the next fresh entity id
    delta,                  \* Time::delta of the frames, in ms
    pc                      \* the step of the frame that runs next

vars == << game_state, next_state, wave_count, spawned_count_in_wave,
           first_wave_spawned, time_between_waves, time_between_spawns,
           lifes, gold, enemies, shots, towers, commands, next_entity,
           delta, pc >>

waveVars == << wave_count, spawned_count_in_wave, first_wave_spawned,
               time_between_waves, time_between_spawns >>


\* ------------------------------------------------------------------------
\* Towers (TowerType::to_tower_data) and the runs that are explored
\* ------------------------------------------------------------------------
INITIAL_TOWER_DAMAGE == << 15, 40, 150 >>
\* base_attack_speed of Lich, Zigurat, Electric, in ms
BASE_ATTACK_SPEED == << 500, 400, 1200 >>
\* the placements of TOWER_POSITION_PLACEMENT with whole coordinates that are used
TOWER_POSITION_PLACEMENT ==
    << [x |-> 17,  y |-> 16], [x |-> -112, y |-> 16], [x |-> 144, y |-> 16],
       [x |-> 400, y |-> 53], [x |-> -240, y |-> -240] >>

\* attack_damage and attack_speed of a tower of type ty (1 Lich, 2 Zigurat,
\* 3 Electric) at the given level; the tower stands on placement place
to_tower_data(ty, level, place) ==
    [ x |-> TOWER_POSITION_PLACEMENT[place].x,
      y |-> TOWER_POSITION_PLACEMENT[place].y,
      attack_damage |->
          Max(1, Min(500, RoundDiv(INITIAL_TOWER_DAMAGE[ty] * Pow(18, level),
                                   Pow(10, level)))),
      duration |->
          Max(100, RoundDiv(BASE_ATTACK_SPEED[ty] * Pow(85, level), Pow(100, level))),
      attack_speed |-> NewTimer ]

\* Frame times (ms) and tower placements of the runs explored.  The frame time
\* is an input of every system (Time::delta); the towers are placed by the
\* build systems before the first wave.
Configs ==
    { [delta |-> 50,   towers |-> << to_tower_data(3, 3, 4) >>],
      [delta |-> 50,   towers |-> << to_tower_data(1, 1, 3) >>],
      [delta |-> 500,  towers |-> << >>],
      [delta |-> 1867, towers |-> << to_tower_data(1, 1, 4) >>],
      [delta |-> 3200, towers |-> << to_tower_data(2, 2, 1), to_tower_data(1, 1, 3) >>] }

\* ------------------------------------------------------------------------
\* Initial state: the resources inserted at startup
\* ------------------------------------------------------------------------
Init ==
    /\ game_state = "Building"
    /\ next_state = "None"
    /\ wave_count = 0
    /\ spawned_count_in_wave = 0
    /\ first_wave_spawned = FALSE
    /\ time_between_waves = NewTimer
    /\ time_between_spawns = NewTimer
    /\ lifes = MAX_LIFES
    /\ gold = INITIAL_PLAYER_GOLD
    /\ enemies = << >>
    /\ shots = << >>
    /\ commands = << >>
    /\ next_entity = 1
    /\ \E cfg \in Configs : delta = cfg.delta /\ towers = cfg.towers
    /\ pc = "state_transition"

\* ------------------------------------------------------------------------
\* The frame: which systems run in which phase, and in which order
\* ------------------------------------------------------------------------
\* The Update systems in the order of the per-tick data flow.
Schedule ==
    << "spawn_wave", "move_enemies", "spawn_shots", "move_shots_to_enemies",
       "despawn_shots_with_killed_target", "game_over", "wave_control",
       "apply_deferred" >>

\* run conditions: which systems run in which phase
RunsIn(sys, phase) ==
    CASE sys = "wave_control" -> phase \in {"Building", "Attacking"}
      [] sys = "apply_deferred" -> TRUE
      [] OTHER -> phase = "Attacking"

RECURSIVE NextFrom(_, _)
NextFrom(i, phase) ==
    IF i > Len(Schedule) THEN "state_transition"
    ELSE IF RunsIn(Schedule[i], phase) THEN Schedule[i]
    ELSE NextFrom(i + 1, phase)

IndexOf(sys) == CHOOSE i \in 1..Len(Schedule) : Schedule[i] = sys

\* the step that follows sys in a frame of the given phase
After(sys, phase) == NextFrom(IndexOf(sys) + 1, phase)

\* ------------------------------------------------------------------------
\* Enemy difficulty (spawn_wave)
\* ------------------------------------------------------------------------
\* the life that grows by 1.2 per wave, SCALAR left out
EnemyLife_mut(w) == RoundDiv(INITIAL_ENEMY_LIFE * Pow(12, w), Pow(10, w))

\* (INITIAL_ENEMY_LIFE * (1.2 + SCALAR)^w).round(), SCALAR = 0.8
EnemyLife(w) == RoundDiv(INITIAL_ENEMY_LIFE * Pow(20, w), Pow(10, w))

RECURSIVE SpeedPow(_)
SpeedPow(w) == IF w = 0 THEN BASE_ENEMY_SPEED ELSE RoundDiv(SpeedPow(w - 1) * 105, 100)

\* (75.0 * 1.05^w).min(300.0)
EnemySpeed(w) == Min(SpeedPow(w), MAX_ENEMY_SPEED)

\* ------------------------------------------------------------------------
\* spawn_wave
\* ------------------------------------------------------------------------
\* the gate with the quota test off by one
spawn_allowed_mut(count, t) == count <= MAX_ENEMIES_PER_WAVE /\ TimerJustFinished(t)

\* the spawn gate: quota not reached and the cadence timer just finished
spawn_allowed(count, t) == count < MAX_ENEMIES_PER_WAVE /\ TimerJustFinished(t)

\* the spawn step without the test of wave_count against the table length
SpawnWave_unguarded_mut ==
    /\ pc = "spawn_wave"
    /\ pc' = After("spawn_wave", game_state)
    /\ LET t == TimerTick(time_between_spawns, delta, TIME_BETWEEN_SPAWNS, TRUE) IN
       /\ time_between_spawns' = t
       /\ IF spawn_allowed(spawned_count_in_wave, t)
          THEN /\ commands' = Append(commands,
                     [op |-> "spawn_enemy",
                      e |-> [id |-> next_entity,
                             x |-> SPAWN_X_LOCATION, y |-> SPAWN_Y_LOCATION,
                             life |-> EnemyLife(wave_count),
                             speed |-> EnemySpeed(wave_count),
                             lvl |-> 0]])
               /\ next_entity' = next_entity + 1
               /\ spawned_count_in_wave' = spawned_count_in_wave + 1
          ELSE UNCHANGED << spawned_count_in_wave, commands, next_entity >>
    /\ UNCHANGED << game_state, next_state, wave_count, first_wave_spawned,
                    time_between_waves, lifes, gold, enemies, shots, towers, delta >>

\* the count advanced by the intervals that elapsed in the tick
SpawnWave_mut ==
    /\ pc = "spawn_wave"
    /\ pc' = After("spawn_wave", game_state)
    /\ IF wave_count = NumTextures
       THEN UNCHANGED << time_between_spawns, spawned_count_in_wave, commands,
                         next_entity >>
       ELSE LET t == TimerTick(time_between_spawns, delta, TIME_BETWEEN_SPAWNS, TRUE) IN
            /\ time_between_spawns' = t
            /\ IF spawn_allowed(spawned_count_in_wave, t)
               THEN /\ commands' = Append(commands,
                          [op |-> "spawn_enemy",
                           e |-> [id |-> next_entity,
                                  x |-> SPAWN_X_LOCATION, y |-> SPAWN_Y_LOCATION,
                                  life |-> EnemyLife(wave_count),
                                  speed |-> EnemySpeed(wave_count),
                                  lvl |-> 0]])
                    /\ next_entity' = next_entity + 1
                    /\ spawned_count_in_wave' = spawned_count_in_wave + t.times
               ELSE UNCHANGED << spawned_count_in_wave, commands, next_entity >>
    /\ UNCHANGED << game_state, next_state, wave_count, first_wave_spawned,
                    time_between_waves, lifes, gold, enemies, shots, towers, delta >>

SpawnWave ==
    /\ pc = "spawn_wave"
    /\ pc' = After("spawn_wave", game_state)
    /\ IF wave_count = NumTextures
       THEN UNCHANGED << time_between_spawns, spawned_count_in_wave, commands,
                         next_entity >>
       ELSE LET t == TimerTick(time_between_spawns, delta, TIME_BETWEEN_SPAWNS, TRUE) IN
            /\ time_between_spawns' = t
            /\ IF spawn_allowed(spawned_count_in_wave, t)
               THEN /\ commands' = Append(commands,
                          [op |-> "spawn_enemy",
                           e |-> [id |-> next_entity,
                                  x |-> SPAWN_X_LOCATION, y |-> SPAWN_Y_LOCATION,
                                  life |-> EnemyLife(wave_count),
                                  speed |-> EnemySpeed(wave_count),
                                  lvl |-> 0]])
                    /\ next_entity' = next_entity + 1
                    /\ spawned_count_in_wave' = spawned_count_in_wave + 1
               ELSE UNCHANGED << spawned_count_in_wave, commands, next_entity >>
    /\ UNCHANGED << game_state, next_state, wave_count, first_wave_spawned,
                    time_between_waves, lifes, gold, enemies, shots, towers, delta >>

\* ------------------------------------------------------------------------
\* move_enemies
\* ------------------------------------------------------------------------
\* the step with the last leg recorded under the index of the climb
MoveEnemy_mut(e, d) ==
    LET speed == RoundDiv(e.speed * d, 1000000) IN
    IF e.x > BREAK_POINTS[1].x
    THEN [e EXCEPT !.x = @ - speed]
    ELSE IF e.x <= BREAK_POINTS[1].x /\ e.x > BREAK_POINTS[3].x /\ e.y > BREAK_POINTS[2].y
    THEN [e EXCEPT !.y = @ - speed, !.lvl = 1]
    ELSE IF e.y <= BREAK_POINTS[2].y /\ e.x >= BREAK_POINTS[3].x
    THEN [e EXCEPT !.x = @ - speed, !.lvl = 2]
    ELSE IF e.y < SPAWN_Y_LOCATION /\ e.x <= BREAK_POINTS[3].x /\ e.x > BREAK_POINTS[5].x
    THEN [e EXCEPT !.y = @ + speed, !.lvl = 3]
    ELSE IF e.y >= SPAWN_Y_LOCATION /\ e.x >= BREAK_POINTS[5].x
    THEN [e EXCEPT !.x = @ - speed, !.lvl = 4]
    ELSE IF e.y > BREAK_POINTS[6].y /\ e.x <= BREAK_POINTS[5].x
    THEN [e EXCEPT !.y = @ - speed, !.lvl = 3]
    ELSE e

\* the step without the climb of the fourth leg
MoveEnemy_noclimb_mut(e, d) ==
    LET speed == RoundDiv(e.speed * d, 1000000) IN
    IF e.x > BREAK_POINTS[1].x
    THEN [e EXCEPT !.x = @ - speed]
    ELSE IF e.x <= BREAK_POINTS[1].x /\ e.x > BREAK_POINTS[3].x /\ e.y > BREAK_POINTS[2].y
    THEN [e EXCEPT !.y = @ - speed, !.lvl = 1]
    ELSE IF e.y <= BREAK_POINTS[2].y /\ e.x >= BREAK_POINTS[3].x
    THEN [e EXCEPT !.x = @ - speed, !.lvl = 2]
    ELSE IF e.y >= SPAWN_Y_LOCATION /\ e.x >= BREAK_POINTS[5].x
    THEN [e EXCEPT !.x = @ - speed, !.lvl = 4]
    ELSE IF e.y > BREAK_POINTS[6].y /\ e.x <= BREAK_POINTS[5].x
    THEN [e EXCEPT !.y = @ - speed, !.lvl = 5]
    ELSE e

\* one enemy's step: the first movement rule that applies to its position
MoveEnemy(e, d) ==
    LET speed == RoundDiv(e.speed * d, 1000000) IN
    IF e.x > BREAK_POINTS[1].x
    THEN [e EXCEPT !.x = @ - speed]
    ELSE IF e.x <= BREAK_POINTS[1].x /\ e.x > BREAK_POINTS[3].x /\ e.y > BREAK_POINTS[2].y
    THEN [e EXCEPT !.y = @ - speed, !.lvl = 1]
    ELSE IF e.y <= BREAK_POINTS[2].y /\ e.x >= BREAK_POINTS[3].x
    THEN [e EXCEPT !.x = @ - speed, !.lvl = 2]
    ELSE IF e.y < SPAWN_Y_LOCATION /\ e.x <= BREAK_POINTS[3].x /\ e.x > BREAK_POINTS[5].x
    THEN [e EXCEPT !.y = @ + speed, !.lvl = 3]
    ELSE IF e.y >= SPAWN_Y_LOCATION /\ e.x >= BREAK_POINTS[5].x
    THEN [e EXCEPT !.x = @ - speed, !.lvl = 4]
    ELSE IF e.y > BREAK_POINTS[6].y /\ e.x <= BREAK_POINTS[5].x
    THEN [e EXCEPT !.y = @ - speed, !.lvl = 5]
    ELSE e

\* the step of an enemy in px: enemy.speed * time.delta_secs()
Stride(e, d) == RoundDiv(e.speed * d, 1000000)

\* the movement that drops an enemy as soon as it is past the final threshold
MoveEnemies_mut ==
    /\ pc = "move_enemies"
    /\ pc' = After("move_enemies", game_state)
    /\ enemies' = SelectSeq([i \in 1..Len(enemies) |-> MoveEnemy(enemies[i], delta)],
                           LAMBDA e : e.y > BREAK_POINTS[6].y)
    /\ UNCHANGED << game_state, next_state, waveVars, lifes, gold, shots, towers,
                    commands, next_entity, delta >>

MoveEnemies ==
    /\ pc = "move_enemies"
    /\ pc' = After("move_enemies", game_state)
    /\ enemies' = [i \in 1..Len(enemies) |-> MoveEnemy(enemies[i], delta)]
    /\ UNCHANGED << game_state, next_state, waveVars, lifes, gold, shots, towers,
                    commands, next_entity, delta >>

\* ------------------------------------------------------------------------
\* game_over
\* ------------------------------------------------------------------------
Breached(e) == e.y <= BREAK_POINTS[6].y

\* the despawn commands for the entities of seq that satisfy Test, in order
DespawnCommands(seq, Test(_)) ==
    LET sel == SelectSeq(seq, Test) IN
    [i \in 1..Len(sel) |-> [op |-> "despawn", id |-> sel[i].id]]

\* the breach that costs no life
LifesAfter_mut(l, seq) == l

RECURSIVE LifesAfter(_, _)
\* lifes.saturating_sub(1), once per breached enemy
LifesAfter(l, seq) ==
    IF seq = << >> THEN l
    ELSE LifesAfter(IF Breached(Head(seq)) THEN SaturatingSub(l, 1) ELSE l, Tail(seq))

\* the phase signal that is never raised
game_over_signal_mut(l, signalled) == signalled

\* the phase signalled after the breaches: GameOver when no life is left
game_over_signal(l, signalled) == IF l = 0 THEN "GameOver" ELSE signalled

GameOver ==
    /\ pc = "game_over"
    /\ pc' = After("game_over", game_state)
    /\ commands' = commands \o DespawnCommands(enemies, Breached)
    /\ lifes' = LifesAfter(lifes, enemies)
    /\ next_state' = game_over_signal(lifes', next_state)
    /\ UNCHANGED << game_state, waveVars, gold, enemies, shots, towers,
                    next_entity, delta >>

\* ------------------------------------------------------------------------
\* wave_control
\* ------------------------------------------------------------------------
\* the bootstrap branch without its flag
bootstrap_mut(first, t) == TimerJustFinished(t)

\* the bootstrap branch: the cooldown elapsed before the first wave was released
bootstrap(first, t) == ~first /\ TimerJustFinished(t)

wave_fully_spawned(count) == count = MAX_ENEMIES_PER_WAVE

all_enemies_killed(es) == es = << >>

\* the wave completion condition
complete(count, es) == wave_fully_spawned(count) /\ all_enemies_killed(es)

\* the first latch: completion while the cooldown is paused
latch(count, es, t) == complete(count, es) /\ TimerPaused(t)

\* the second latch outside the completion test
advance_mut(count, es, t) == TimerJustFinished(t)

\* the second latch: completion and the cooldown just elapsed
advance(count, es, t) == complete(count, es) /\ TimerJustFinished(t)

\* the counter stepping the wrong way
next_wave_count_mut(wc) == wc - 1

\* wave_count += 1
next_wave_count(wc) == wc + 1

\* the reset without the pause
pause_and_reset_mut(t) == TimerReset(t)

\* time_between_waves.pause(); time_between_waves.reset()
pause_and_reset(t) == TimerReset(TimerPause(t))

\* the reset without the unpause
unpause_and_reset_mut(t) == TimerReset(t)

\* time_between_waves.unpause(); time_between_waves.reset()
unpause_and_reset(t) == TimerReset(TimerUnpause(t))

WaveControl ==
    /\ pc = "wave_control"
    /\ pc' = After("wave_control", game_state)
    /\ LET t1 == TimerTick(time_between_waves, delta, TIME_BETWEEN_WAVES, FALSE)
           b  == bootstrap(first_wave_spawned, t1)
           t2 == IF b THEN pause_and_reset(t1) ELSE t1
           n2 == IF b THEN "Attacking" ELSE next_state
           l  == latch(spawned_count_in_wave, enemies, t2)
           t3 == IF l THEN unpause_and_reset(t2) ELSE t2
           n3 == IF l THEN "Building" ELSE n2
           a  == advance(spawned_count_in_wave, enemies, t3)
       IN  /\ first_wave_spawned' = (first_wave_spawned \/ b)
           /\ spawned_count_in_wave' = IF a THEN 0 ELSE spawned_count_in_wave
           /\ wave_count' = IF a THEN next_wave_count(wave_count) ELSE wave_count
           /\ time_between_waves' = IF a THEN pause_and_reset(t3) ELSE t3
           /\ next_state' = IF a THEN "Attacking" ELSE n3
    /\ UNCHANGED << game_state, time_between_spawns, lifes, gold, enemies, shots,
                    towers, commands, next_entity, delta >>

\* ------------------------------------------------------------------------
\* Deferred commands and the state transition
\* ------------------------------------------------------------------------
DespawnedIds(cmds) == { cmds[i].id : i \in { j \in 1..Len(cmds) : cmds[j].op = "despawn" } }

RECURSIVE Spawned(_, _)
Spawned(cmds, op) ==
    IF cmds = << >> THEN << >>
    ELSE (IF Head(cmds).op = op THEN << Head(cmds).e >> ELSE << >>)
         \o Spawned(Tail(cmds), op)

Alive(seq, dead) == SelectSeq(seq, LAMBDA r : r.id \notin dead)

\* the command queues are applied at the end of the frame
ApplyDeferred ==
    /\ pc = "apply_deferred"
    /\ pc' = "state_transition"
    /\ LET dead == DespawnedIds(commands) IN
       /\ enemies' = Alive(enemies \o Spawned(commands, "spawn_enemy"), dead)
       /\ shots' = Alive(shots \o Spawned(commands, "spawn_shot"), dead)
    /\ commands' = << >>
    /\ UNCHANGED << game_state, next_state, waveVars, lifes, gold, towers,
                    next_entity, delta >>

\* the systems that run when a phase is entered
OnEnter(phase) ==
    CASE phase = "GameOver" -> "reset_wave_control_on_game_over"
      [] phase = "Building" -> "delete_all_shots_on_building"
      [] OTHER -> NextFrom(1, phase)

\* the signalled transition is applied before the systems of the next frame
StateTransition ==
    /\ pc = "state_transition"
    /\ IF next_state # "None" /\ next_state # game_state
       THEN /\ game_state' = next_state
            /\ pc' = OnEnter(next_state)
       ELSE /\ game_state' = game_state
            /\ pc' = NextFrom(1, game_state)
    /\ next_state' = "None"
    /\ UNCHANGED << waveVars, lifes, gold, enemies, shots, towers, commands,
                    next_entity, delta >>

\* the reset that leaves the first-wave flag as it is
reset_wave_control_on_game_over_mut ==
    /\ pc = "reset_wave_control_on_game_over"
    /\ pc' = "despawn_all_enemies_in_game_over"
    /\ wave_count' = 0
    /\ spawned_count_in_wave' = 0
    /\ time_between_waves' = unpause_and_reset(time_between_waves)
    /\ time_between_spawns' = TimerReset(time_between_spawns)
    /\ UNCHANGED << game_state, next_state, first_wave_spawned, lifes, gold, enemies,
                    shots, towers, commands, next_entity, delta >>

reset_wave_control_on_game_over ==
    /\ pc = "reset_wave_control_on_game_over"
    /\ pc' = "despawn_all_enemies_in_game_over"
    /\ wave_count' = 0
    /\ spawned_count_in_wave' = 0
    /\ time_between_waves' = unpause_and_reset(time_between_waves)
    /\ time_between_spawns' = TimerReset(time_between_spawns)
    /\ first_wave_spawned' = FALSE
    /\ UNCHANGED << game_state, next_state, lifes, gold, enemies, shots, towers,
                    commands, next_entity, delta >>

despawn_all_enemies_in_game_over ==
    /\ pc = "despawn_all_enemies_in_game_over"
    /\ pc' = "apply_deferred"
    /\ commands' = commands \o DespawnCommands(enemies, LAMBDA e : TRUE)
    /\ UNCHANGED << game_state, next_state, waveVars, lifes, gold, enemies, shots,
                    towers, next_entity, delta >>

\* the handler that removes no shot
delete_all_shots_on_building_mut ==
    /\ pc = "delete_all_shots_on_building"
    /\ pc' = "apply_deferred"
    /\ UNCHANGED << game_state, next_state, waveVars, lifes, gold, enemies, shots,
                    towers, commands, next_entity, delta >>

delete_all_shots_on_building ==
    /\ pc = "delete_all_shots_on_building"
    /\ pc' = "apply_deferred"
    /\ commands' = commands \o DespawnCommands(shots, LAMBDA s : TRUE)
    /\ UNCHANGED << game_state, next_state, waveVars, lifes, gold, enemies, shots,
                    towers, next_entity, delta >>


\* ------------------------------------------------------------------------
\* spawn_shots: target selection and firing
\* ------------------------------------------------------------------------
\* f32::MAX, the initial closest_distance_to_target (above every squared distance)
F32_MAX == 1073741823

\* distance < TOWER_ATTACK_RANGE && distance > 0.0
InRange(tw, e) ==
    LET d == DistSq(tw.x, tw.y, e.x, e.y) IN
    d < TOWER_ATTACK_RANGE * TOWER_ATTACK_RANGE /\ d > 0

enemies_in_range(tw, es) == SelectSeq(es, LAMBDA e : InRange(tw, e))

\* the highest BreakPointLvl among the enemies in range, 0 when there is none
max_break_value(inr) ==
    IF inr = << >> THEN 0
    ELSE CHOOSE m \in { inr[i].lvl : i \in 1..Len(inr) } :
             \A i \in 1..Len(inr) : inr[i].lvl <= m

closer_enemies_to_victory_mut(inr) == inr

closer_enemies_to_victory(inr) ==
    SelectSeq(inr, LAMBDA e : e.lvl = max_break_value(inr))

\* the (squared) distance of an enemy to the break point of its level
distance_to_target(e) ==
    DistSq(e.x, e.y, BREAK_POINTS[e.lvl + 1].x, BREAK_POINTS[e.lvl + 1].y)

Closer_mut(d, closest) == d <= closest

\* whether a candidate at distance d replaces the closest one so far
Closer(d, closest) == d < closest

RECURSIVE ClosestLoop(_, _, _)
\* the loop over closer_enemies_to_victory; best is the enemy chosen so far
\* (id 0: none) and closest its distance
ClosestLoop(cands, best, closest) ==
    IF cands = << >> THEN best
    ELSE LET e == Head(cands) IN
         IF Closer(distance_to_target(e), closest)
         THEN ClosestLoop(Tail(cands), e, distance_to_target(e))
         ELSE ClosestLoop(Tail(cands), best, closest)

NoEnemy == [id |-> 0, x |-> 0, y |-> 0, life |-> 0, speed |-> 0, lvl |-> 0]

\* the enemy a tower aims at, NoEnemy when there is none
closest_enemy(tw, es) ==
    ClosestLoop(closer_enemies_to_victory(enemies_in_range(tw, es)), NoEnemy, F32_MAX)

\* the tower's timer after this frame's tick
TowerTick(tw, d) ==
    [tw EXCEPT !.attack_speed = TimerTick(tw.attack_speed, d, tw.duration, TRUE)]

Fires_mut(tw, es) == closest_enemy(tw, es).id # 0

\* whether the ticked tower tw fires at the enemies es
Fires(tw, es) ==
    closest_enemy(tw, es).id # 0 /\ TimerJustFinished(tw.attack_speed)

\* the shot the ticked tower tw creates, with entity id sid
NewShot(tw, es, sid) ==
    LET target == closest_enemy(tw, es) IN
    [ id |-> sid, x |-> tw.x, y |-> tw.y + SHOT_Y_OFFSET, nan |-> FALSE,
      damage |-> tw.attack_damage,
      target |-> target.id, tx |-> target.x, ty |-> target.y,
      animation_timer |-> NewTimer, index |-> 0 ]

RECURSIVE ShotCommands(_, _, _)
\* the spawn commands of the towers tws (already ticked), ids from sid on
ShotCommands(tws, es, sid) ==
    IF tws = << >> THEN << >>
    ELSE IF Fires(Head(tws), es)
    THEN << [op |-> "spawn_shot", e |-> NewShot(Head(tws), es, sid)] >>
         \o ShotCommands(Tail(tws), es, sid + 1)
    ELSE ShotCommands(Tail(tws), es, sid)

SpawnShots ==
    /\ pc = "spawn_shots"
    /\ pc' = After("spawn_shots", game_state)
    /\ towers' = [i \in 1..Len(towers) |-> TowerTick(towers[i], delta)]
    /\ LET cmds == ShotCommands(towers', enemies, next_entity) IN
       /\ commands' = commands \o cmds
       /\ next_entity' = next_entity + Len(cmds)
    /\ UNCHANGED << game_state, next_state, waveVars, lifes, gold, enemies, shots,
                    delta >>

\* ------------------------------------------------------------------------
\* Projectile flight
\* ------------------------------------------------------------------------
\* direction * SHOT_SPEED * delta_secs from (px, py) towards (tx, ty)
Movement(px, py, tx, ty, d) ==
    LET len  == RoundDiv(SHOT_SPEED * d, 1000)
        dist == RSqrt(DistSq(px, py, tx, ty))
    IN  [x |-> RoundDiv((tx - px) * len, dist), y |-> RoundDiv((ty - py) * len, dist)]

IndexOfId(seq, id) ==
    IF \E i \in 1..Len(seq) : seq[i].id = id
    THEN CHOOSE i \in 1..Len(seq) : seq[i].id = id
    ELSE 0

\* the reward with the wave bonus taken instead of given
gold_reward_neg_mut(life, wc) == RoundDiv(life * 10, 25) - (wc + 1) * 2

\* the reward with the wave factor short by one
gold_reward_mut(life, wc) == RoundDiv(life * 10 + wc * 2 * 25, 25)

\* gold reward of a kill: (enemy.life / 2.5 + wave_factor * 2).round()
gold_reward(life, wc) == RoundDiv(life * 10 + (wc + 1) * 2 * 25, 25)

\* the damage gate without the frame test
shot_hits_mut(near, idx) == near

\* the damage gate: within the hurt distance and the atlas index at its last frame
shot_hits(near, idx) == near /\ idx >= LAST_SHOT_FRAME

\* the hit that leaves the shot in flight
hit_despawns_mut(kill, hit, en, s) ==
    IF kill THEN << [op |-> "despawn", id |-> en.id] >> ELSE << >>

\* the hit that leaves the dead enemy in place
hit_despawns_keep_enemy_mut(kill, hit, en, s) ==
    IF hit THEN << [op |-> "despawn", id |-> s.id] >> ELSE << >>

\* the despawn commands of a hit: the enemy when it is killed, then the shot
hit_despawns(kill, hit, en, s) ==
    (IF kill THEN << [op |-> "despawn", id |-> en.id] >> ELSE << >>)
    \o (IF hit THEN << [op |-> "despawn", id |-> s.id] >> ELSE << >>)

\* One shot of move_shots_to_enemies.  acc carries the enemies (their life is
\* written in place), the gold, the commands and the shots rewritten so far.
MoveShot(acc, s, d, wc) ==
    LET k == IndexOfId(acc.enemies, s.target) IN
    IF k = 0 THEN [acc EXCEPT !.shots = Append(@, s)]
    ELSE
    LET en == acc.enemies[k]
        \* normalize() of the zero vector is NaN, and NaN stays NaN
        nan == s.nan \/ (s.x = en.x /\ s.y = en.y)
        mv  == IF nan THEN [x |-> 0, y |-> 0] ELSE Movement(s.x, s.y, en.x, en.y, d)
        s1  == [s EXCEPT !.x = @ + mv.x, !.y = @ + mv.y, !.nan = nan,
                         !.tx = en.x, !.ty = en.y]
        near == ~nan /\ DistSq(s1.x, s1.y, en.x, en.y) <= SHOT_HURT_DISTANCE
        tm  == IF near THEN TimerTick(s.animation_timer, d, SHOT_ANIMATION_TIME, TRUE)
               ELSE s.animation_timer
        idx == IF near /\ TimerJustFinished(tm) THEN s.index + 1 ELSE s.index
        s2  == [s1 EXCEPT !.animation_timer = tm, !.index = idx]
        hit == shot_hits(near, idx)
        life == IF hit THEN SaturatingSub(en.life, s.damage) ELSE en.life
        kill == hit /\ life = 0
    IN  [ enemies |-> [acc.enemies EXCEPT ![k].life = life],
          gold |-> IF kill THEN acc.gold + gold_reward(life, wc) ELSE acc.gold,
          cmds |-> acc.cmds \o hit_despawns(kill, hit, en, s),
          shots |-> Append(acc.shots, s2) ]

RECURSIVE MoveShotsLoop(_, _, _, _)
\* the loop over the shots in query order; an iteration is carried out before
\* the next one starts, and each leaves its shot behind in acc.shots
MoveShotsLoop(acc, todo, d, wc) ==
    IF todo = << >> THEN acc
    ELSE LET done == MoveShot(acc, Head(todo), d, wc) IN
         IF Len(done.shots) > Len(acc.shots)
         THEN MoveShotsLoop(done, Tail(todo), d, wc)
         ELSE done

MoveShotsToEnemies ==
    /\ pc = "move_shots_to_enemies"
    /\ pc' = After("move_shots_to_enemies", game_state)
    /\ LET r == MoveShotsLoop([enemies |-> enemies, gold |-> gold, cmds |-> << >>,
                               shots |-> << >>], shots, delta, wave_count)
       IN  /\ enemies' = r.enemies
           /\ gold' = r.gold
           /\ shots' = r.shots
           /\ commands' = commands \o r.cmds
    /\ UNCHANGED << game_state, next_state, waveVars, lifes, towers, next_entity,
                    delta >>

\* the removal of a lost shot without the range test
lost_shot_despawn_mut(arrived, far) == arrived

\* a lost shot is removed on arrival or beyond the despawn range
lost_shot_despawn(arrived, far) == arrived \/ far

\* the lost-target test that takes an enemy killed in this tick for gone
LostShot_mut(s, es, d) ==
    IF IndexOfId(SelectSeq(es, LAMBDA e : e.life > 0), s.target) # 0 THEN [shot |-> s, despawn |-> FALSE]
    ELSE
    LET nan == s.nan \/ (s.x = s.tx /\ s.y = s.ty)
        mv  == IF nan THEN [x |-> 0, y |-> 0] ELSE Movement(s.x, s.y, s.tx, s.ty, d)
        nx  == s.x + mv.x
        ny  == s.y + mv.y
        arrived == ~nan /\ DistSq(nx, ny, s.tx, s.ty) <= ARRIVAL_DISTANCE
        s1  == IF arrived
               THEN [s EXCEPT !.x = s.tx, !.y = s.ty, !.index = 0]
               ELSE [s EXCEPT !.x = nx, !.y = ny, !.nan = nan, !.index = 0]
        far == ~s1.nan /\ DistSq(s1.x, s1.y, 0, 0) > DESPAWN_SHOT_RANGE * DESPAWN_SHOT_RANGE
    IN  [shot |-> s1, despawn |-> lost_shot_despawn(arrived, far)]

\* One shot of despawn_shots_with_killed_target: the shot as rewritten and
\* whether its despawn is requested.
LostShot(s, es, d) ==
    IF IndexOfId(es, s.target) # 0 THEN [shot |-> s, despawn |-> FALSE]
    ELSE
    LET nan == s.nan \/ (s.x = s.tx /\ s.y = s.ty)
        mv  == IF nan THEN [x |-> 0, y |-> 0] ELSE Movement(s.x, s.y, s.tx, s.ty, d)
        nx  == s.x + mv.x
        ny  == s.y + mv.y
        arrived == ~nan /\ DistSq(nx, ny, s.tx, s.ty) <= ARRIVAL_DISTANCE
        s1  == IF arrived
               THEN [s EXCEPT !.x = s.tx, !.y = s.ty, !.index = 0]
               ELSE [s EXCEPT !.x = nx, !.y = ny, !.nan = nan, !.index = 0]
        far == ~s1.nan /\ DistSq(s1.x, s1.y, 0, 0) > DESPAWN_SHOT_RANGE * DESPAWN_SHOT_RANGE
    IN  [shot |-> s1, despawn |-> lost_shot_despawn(arrived, far)]

DespawnShotsWithKilledTarget ==
    /\ pc = "despawn_shots_with_killed_target"
    /\ pc' = After("despawn_shots_with_killed_target", game_state)
    /\ shots' = [i \in 1..Len(shots) |-> LostShot(shots[i], enemies, delta).shot]
    /\ commands' = commands \o
           DespawnCommands(shots, LAMBDA s : LostShot(s, enemies, delta).despawn)
    /\ UNCHANGED << game_state, next_state, waveVars, lifes, gold, enemies, towers,
                    next_entity, delta >>

\* ------------------------------------------------------------------------
\* Specification
\* ------------------------------------------------------------------------
Next ==
    \/ StateTransition
    \/ SpawnWave
    \/ MoveEnemies
    \/ SpawnShots
    \/ MoveShotsToEnemies
    \/ DespawnShotsWithKilledTarget
    \/ GameOver
    \/ WaveControl
    \/ ApplyDeferred
    \/ reset_wave_control_on_game_over
    \/ despawn_all_enemies_in_game_over
    \/ delete_all_shots_on_building

Spec == Init /\ [][Next]_vars

\* the positions of the frame loop
Systems ==
    { Schedule[i] : i \in 1..Len(Schedule) }
      \cup { "state_transition", "reset_wave_control_on_game_over",
             "despawn_all_enemies_in_game_over", "delete_all_shots_on_building" }

\* the frame loop moves on to another system
RunSystem == pc' \in Systems \ { pc }

\* the main loop of the engine keeps running frames: every step of Next moves
\* pc, so a loop that keeps moving is a loop that keeps taking steps of Next
LiveSpec == Spec /\ WF_pc(RunSystem)

\* ------------------------------------------------------------------------
\* Target selection on its own: spawn_shots applied to drawn enemy sets
\* ------------------------------------------------------------------------
\* the most enemies drawn at once
MaxTargets == 4
\* the frames of movement an enemy drawn has behind it, at most
MaxSteps == 8
\* the frame time of the drawn states
TargetDelta == 1867

RECURSIVE Traj(_)
\* a first-wave enemy after k frames of move_enemies
Traj(k) ==
    IF k = 0
    THEN [ id |-> 0, x |-> SPAWN_X_LOCATION, y |-> SPAWN_Y_LOCATION,
           life |-> EnemyLife(0), speed |-> EnemySpeed(0), lvl |-> 0 ]
    ELSE MoveEnemy(Traj(k - 1), TargetDelta)

\* the enemy sets drawn: up to MaxTargets enemies at different stages of the
\* path, in any query order; the ids are the positions in the query
TargetEnemies ==
    { es \in UNION { [1..n -> 1..MaxSteps] : n \in 0..MaxTargets } :
        \A i, j \in DOMAIN es : i # j => es[i] # es[j] }

TargetInit ==
    /\ game_state = "Attacking"
    /\ next_state = "None"
    /\ wave_count = 0
    /\ spawned_count_in_wave = MaxSteps
    /\ first_wave_spawned = TRUE
    /\ time_between_waves = TimerReset(TimerPause(NewTimer))
    /\ time_between_spawns = NewTimer
    /\ lifes = MAX_LIFES
    /\ gold = INITIAL_PLAYER_GOLD
    /\ \E es \in TargetEnemies :
          enemies = [i \in DOMAIN es |-> [Traj(es[i]) EXCEPT !.id = i]]
    /\ shots = << >>
    /\ commands = << >>
    /\ next_entity = MaxTargets + 1
    /\ delta = TargetDelta
    /\ \E place \in {3, 4, 5} : towers = << to_tower_data(1, 1, place) >>
    /\ pc = "spawn_shots"

TargetNext == SpawnShots

TargetSpec == TargetInit /\ [][TargetNext]_vars

\* ------------------------------------------------------------------------
\* The path on its own: games without towers over a range of frame times
\* ------------------------------------------------------------------------
\* Frame times (ms) for which an enemy of the first wave steps 5, 15, 35, 70,
\* 105, 150, 175, 218 and 240 px per frame: the step of 5 px lands on every
\* threshold of the path exactly, the others straddle them
PathDeltas == { 67, 200, 467, 933, 1400, 2000, 2333, 2900, 3200 }

PathInit ==
    /\ game_state = "Building"
    /\ next_state = "None"
    /\ wave_count = 0
    /\ spawned_count_in_wave = 0
    /\ first_wave_spawned = FALSE
    /\ time_between_waves = NewTimer
    /\ time_between_spawns = NewTimer
    /\ lifes = MAX_LIFES
    /\ gold = INITIAL_PLAYER_GOLD
    /\ enemies = << >>
    /\ shots = << >>
    /\ commands = << >>
    /\ next_entity = 1
    /\ delta \in PathDeltas
    /\ towers = << >>
    /\ pc = "state_transition"

PathSpec == PathInit /\ [][Next]_vars

PathLiveSpec == PathSpec /\ WF_pc(RunSystem)

\* ------------------------------------------------------------------------
\* Games with towers in which hits coincide
\* ------------------------------------------------------------------------
\* A Lich and a Zigurat whose ranges overlap on the third leg, so that their
\* shots reach the same enemy in the same frame, and that clear every wave; and
\* a Lich next to the last leg, whose shots reach enemies as they pass the final
\* threshold.
CombatConfigs ==
    { [delta |-> 50, towers |-> << to_tower_data(1, 1, 1), to_tower_data(2, 3, 2) >>],
      [delta |-> 80, towers |-> << to_tower_data(1, 1, 5) >>] }

CombatInit ==
    /\ game_state = "Building"
    /\ next_state = "None"
    /\ wave_count = 0
    /\ spawned_count_in_wave = 0
    /\ first_wave_spawned = FALSE
    /\ time_between_waves = NewTimer
    /\ time_between_spawns = NewTimer
    /\ lifes = MAX_LIFES
    /\ gold = INITIAL_PLAYER_GOLD
    /\ enemies = << >>
    /\ shots = << >>
    /\ commands = << >>
    /\ next_entity = 1
    /\ \E cfg \in CombatConfigs : delta = cfg.delta /\ towers = cfg.towers
    /\ pc = "state_transition"

CombatSpec == CombatInit /\ [][Next]_vars

CombatLiveSpec == CombatSpec /\ WF_pc(RunSystem)

\* ------------------------------------------------------------------------
\* Properties
\* ------------------------------------------------------------------------
\* the number of enemies whose creation is queued in this frame
QueuedEnemies(cmds) == Len(Spawned(cmds, "spawn_enemy"))

\* the cooldown is counting and this frame's tick takes it to its duration
CooldownElapsesNow ==
    /\ ~time_between_waves.paused
    /\ ~time_between_waves.finished
    /\ time_between_waves.elapsed + delta >= TIME_BETWEEN_WAVES

\* C1: spawned_count_in_wave never exceeds MAX_ENEMIES_PER_WAVE, and an enemy is
\* created only by a tick of spawn_wave that starts with spawned_count_in_wave
\* below the quota.
C1_SpawnQuota ==
    /\ [](spawned_count_in_wave <= MAX_ENEMIES_PER_WAVE)
    /\ [][QueuedEnemies(commands') > QueuedEnemies(commands)
            => /\ pc = "spawn_wave"
               /\ spawned_count_in_wave < MAX_ENEMIES_PER_WAVE
               /\ spawned_count_in_wave' = spawned_count_in_wave + 1]_vars

\* the last enemy of a wave has just been queued
C1_Witness ==
    /\ spawned_count_in_wave = MAX_ENEMIES_PER_WAVE
    /\ QueuedEnemies(commands) = 1
    /\ pc = "move_enemies"

\* C2 as claimed: no step lowers wave_count, the game-over handlers included.
C2_NeverDecreases == [][wave_count' >= wave_count]_vars

\* C2 amended: the only step that lowers wave_count is
\* reset_wave_control_on_game_over, which sets it to 0.
C2_DecreasesOnlyOnReset ==
    [][wave_count' < wave_count
         => pc = "reset_wave_control_on_game_over" /\ wave_count' = 0]_vars

\* the reset has run after a game that had passed its first wave
C2_Witness ==
    /\ game_state = "GameOver"
    /\ pc = "despawn_all_enemies_in_game_over"
    /\ wave_count = 0
    /\ lifes = 0

\* the game as it starts: Building, all lives, the initial gold, wave 0 and the
\* cooldown counting towards the first wave
C3_Start ==
    /\ game_state = "Building"
    /\ lifes = MAX_LIFES
    /\ gold = INITIAL_PLAYER_GOLD
    /\ wave_count = 0
    /\ ~first_wave_spawned
    /\ ~time_between_waves.paused

\* the whole first wave has been spawned and every enemy of it killed: none is
\* alive or queued, and none has cost a life
C3_AllKilled ==
    /\ game_state = "Attacking"
    /\ wave_count = 0
    /\ spawned_count_in_wave = MAX_ENEMIES_PER_WAVE
    /\ enemies = << >>
    /\ QueuedEnemies(commands) = 0
    /\ lifes = MAX_LIFES

\* C3: from the start the phase becomes Attacking (still wave 0), and once the 25
\* enemies of the first wave are spawned and all killed the phase returns to
\* Building and the wave counter becomes 1.
C3_PhaseScenario ==
    /\ C3_Start ~> (game_state = "Attacking" /\ wave_count = 0 /\ lifes = MAX_LIFES)
    /\ C3_AllKilled ~> (game_state = "Building" /\ wave_count = 0)
    /\ C3_AllKilled ~> (game_state = "Building" /\ wave_count = 1)

\* the counter has become 1 in the Building phase with no life lost
C3_Witness ==
    /\ game_state = "Building"
    /\ wave_count = 1
    /\ lifes = MAX_LIFES
    /\ gold > INITIAL_PLAYER_GOLD

\* C4: wave_count increases only in a tick of wave_control that starts with the
\* quota spawned, no enemy alive and the cooldown elapsing; that tick adds
\* exactly 1, zeroes spawned_count_in_wave, pauses and resets the cooldown and
\* signals Attacking.
C4_WaveAdvance ==
    [][wave_count' > wave_count
         => /\ pc = "wave_control"
            /\ spawned_count_in_wave = MAX_ENEMIES_PER_WAVE
            /\ enemies = << >>
            /\ CooldownElapsesNow
            /\ wave_count' = wave_count + 1
            /\ spawned_count_in_wave' = 0
            /\ time_between_waves'.paused
            /\ time_between_waves'.elapsed = 0
            /\ next_state' = "Attacking"]_vars

\* the second wave has just been released
C4_Witness ==
    /\ pc = "apply_deferred"
    /\ wave_count = 1
    /\ next_state = "Attacking"
    /\ spawned_count_in_wave = 0
    /\ time_between_waves.paused

\* the parts of the double latch that hold: Building is signalled only by a tick
\* of wave_control that starts with the quota spawned, no enemy alive and the
\* cooldown paused, and that tick unpauses and resets the cooldown; a cooldown
\* that is counting is not reset and signals nothing until it elapses
C5_Latch ==
    /\ [][(next_state' = "Building" /\ next_state # "Building")
            => /\ pc = "wave_control"
               /\ spawned_count_in_wave = MAX_ENEMIES_PER_WAVE
               /\ enemies = << >>
               /\ time_between_waves.paused
               /\ ~time_between_waves'.paused
               /\ time_between_waves'.elapsed = 0]_vars
    /\ [][(/\ pc = "wave_control"
           /\ first_wave_spawned
           /\ ~time_between_waves.paused
           /\ ~time_between_waves.finished
           /\ ~CooldownElapsesNow)
            => /\ time_between_waves'.elapsed = time_between_waves.elapsed + delta
               /\ next_state' = next_state]_vars

\* the cooldown started at a completion releases the next wave when it elapses
C5_CooldownReleasesWave ==
    [][(pc = "wave_control" /\ first_wave_spawned /\ CooldownElapsesNow)
         => next_state' = "Attacking"]_vars

\* C5: the transition to Building is signalled only in a tick where
\* spawned_count_in_wave equals the quota, no enemy is alive and the cooldown is
\* paused; it is signalled once per completed wave, the cooldown being unpaused
\* and reset in that tick and not reset again while it counts; and the cooldown
\* started at completion elapses into the next Attacking phase.
C5_DoubleLatch == C5_Latch /\ C5_CooldownReleasesWave

\* the cooldown started at a completion has elapsed in the Building phase with
\* an enemy of the wave still alive: no wave is released
C5_Stalled ==
    /\ game_state = "Building"
    /\ first_wave_spawned
    /\ time_between_waves.finished
    /\ enemies # << >>
    /\ spawned_count_in_wave = MAX_ENEMIES_PER_WAVE

\* C6: the bootstrap branch signals Attacking, pauses and resets the cooldown
\* and sets first_wave_spawned without touching wave_count or
\* spawned_count_in_wave; once the flag is set, a cooldown that elapses on a
\* completed wave advances the wave instead, and only the game-over reset
\* clears the flag.
C6_BootstrapOnce ==
    /\ [][~first_wave_spawned /\ first_wave_spawned'
            => /\ pc = "wave_control"
               /\ CooldownElapsesNow
               /\ next_state' = "Attacking"
               /\ time_between_waves'.paused
               /\ time_between_waves'.elapsed = 0
               /\ wave_count' = wave_count
               /\ spawned_count_in_wave' = spawned_count_in_wave]_vars
    /\ [][(/\ first_wave_spawned
           /\ pc = "wave_control"
           /\ CooldownElapsesNow
           /\ spawned_count_in_wave = MAX_ENEMIES_PER_WAVE
           /\ enemies = << >>)
            => wave_count' = wave_count + 1 /\ next_state' = "Attacking"]_vars
    /\ [][first_wave_spawned /\ ~first_wave_spawned'
            => pc = "reset_wave_control_on_game_over"]_vars

\* a later wave has been released with the flag still set
C6_Witness ==
    /\ first_wave_spawned
    /\ wave_count = 1
    /\ game_state = "Attacking"

\* C7: while a released wave is in progress the cooldown is paused at zero, and
\* the cooldown runs only before the first wave is released or after the quota
\* of the wave has been spawned and its completion signalled.
C7_CooldownPaused ==
    /\ (game_state = "Attacking" /\ next_state # "Building")
         => time_between_waves.paused /\ time_between_waves.elapsed = 0
    /\ ~time_between_waves.paused
         => \/ ~first_wave_spawned
            \/ /\ spawned_count_in_wave = MAX_ENEMIES_PER_WAVE
               /\ "Building" \in {game_state, next_state}

\* the second wave is in progress
C7_Witness ==
    /\ game_state = "Attacking"
    /\ wave_count = 1
    /\ enemies # << >>
    /\ time_between_waves.paused

\* the squared distance of enemy e to tower tw is strictly between 0 and the
\* square of TOWER_ATTACK_RANGE
WithinRange(tw, e) ==
    /\ DistSq(tw.x, tw.y, e.x, e.y) > 0
    /\ DistSq(tw.x, tw.y, e.x, e.y) < TOWER_ATTACK_RANGE * TOWER_ATTACK_RANGE

\* the squared distance of enemy e to the waypoint of its segment index
ToWaypoint(e) ==
    DistSq(e.x, e.y, BREAK_POINTS[e.lvl + 1].x, BREAK_POINTS[e.lvl + 1].y)

\* the positions in the enemy query of the candidates of tower tw: the enemies
\* in range whose segment index is the highest among the enemies in range
Candidates(tw) ==
    { i \in 1..Len(enemies) :
        /\ WithinRange(tw, enemies[i])
        /\ \A j \in 1..Len(enemies) :
              WithinRange(tw, enemies[j]) => enemies[j].lvl <= enemies[i].lvl }

\* C8: for every tower and every set of enemies the target selected is an enemy
\* in range (distance strictly between 0 and TOWER_ATTACK_RANGE) whose segment
\* index is the maximum over the enemies in range and whose distance to the
\* waypoint of that index is minimal among the enemies in range at that index;
\* no enemy is selected exactly when no enemy is in range.
C8_TargetSelection ==
    \A t \in 1..Len(towers) :
        LET sel == closest_enemy(towers[t], enemies) IN
        IF Candidates(towers[t]) = {}
        THEN sel.id = 0
        ELSE \E i \in Candidates(towers[t]) :
                /\ sel = enemies[i]
                /\ \A j \in Candidates(towers[t]) :
                      ToWaypoint(enemies[i]) <= ToWaypoint(enemies[j])

\* a shot is queued at the selected enemy while another candidate is farther
\* from the waypoint, an enemy of a lower segment index is in range, and a
\* fourth enemy is out of range
C8_Witness ==
    /\ pc = "move_shots_to_enemies"
    /\ Len(commands) = 1
    /\ \E i \in Candidates(towers[1]) :
          /\ commands[1].e.target = enemies[i].id
          /\ \E j \in Candidates(towers[1]) :
                ToWaypoint(enemies[j]) > ToWaypoint(enemies[i])
          /\ \E j \in 1..Len(enemies) :
                WithinRange(towers[1], enemies[j]) /\ enemies[j].lvl < enemies[i].lvl
    /\ \E j \in 1..Len(enemies) : ~WithinRange(towers[1], enemies[j])

\* C9: when several candidates are at exactly the same, smallest distance to
\* their waypoint, the one selected is the first of them in the enemy query
\* order: the selection is a function of the tower and the enemy states.
C9_TieBreak ==
    \A t \in 1..Len(towers) :
        LET sel == closest_enemy(towers[t], enemies)
            best == { i \in Candidates(towers[t]) :
                        \A j \in Candidates(towers[t]) :
                            ToWaypoint(enemies[i]) <= ToWaypoint(enemies[j]) }
        IN  best # {} =>
              sel.id = enemies[CHOOSE i \in best : \A j \in best : i <= j].id

\* a shot is queued at the first of two candidates that are equally close to
\* their waypoint
C9_Witness ==
    /\ pc = "move_shots_to_enemies"
    /\ Len(commands) = 1
    /\ \E i, j \in Candidates(towers[1]) :
          /\ i < j
          /\ ToWaypoint(enemies[i]) = ToWaypoint(enemies[j])
          /\ \A k \in Candidates(towers[1]) :
                ToWaypoint(enemies[i]) <= ToWaypoint(enemies[k])
          /\ commands[1].e.target = enemies[i].id

\* the shots whose creation is queued, in the order of their creation
QueuedShots(cmds) == Spawned(cmds, "spawn_shot")

\* the towers whose attack cooldown completes an interval in this frame's tick
\* while at least one enemy is in range
FiringTowers ==
    { t \in 1..Len(towers) :
        /\ towers[t].attack_speed.elapsed + delta >= towers[t].duration
        /\ \E j \in 1..Len(enemies) : WithinRange(towers[t], enemies[j]) }

\* C10: in a tick of spawn_shots a tower creates a projectile if and only if
\* its attack cooldown completes an interval in that tick and an enemy is in
\* range, and then exactly one: the projectile starts above the tower, carries
\* the tower's attack_damage and aims at the selected enemy and that enemy's
\* current position.  No other step creates a projectile, so a completion with
\* no enemy in range creates none then or later.
C10_FireCondition ==
    /\ [][pc = "spawn_shots" =>
            LET new == SubSeq(QueuedShots(commands'), Len(QueuedShots(commands)) + 1,
                              Len(QueuedShots(commands')))
            IN  /\ Len(new) = Cardinality(FiringTowers)
                /\ \A t \in FiringTowers :
                      LET k == Cardinality({ u \in FiringTowers : u <= t })
                          sel == closest_enemy(towers[t], enemies)
                      IN  /\ new[k].damage = towers[t].attack_damage
                          /\ new[k].x = towers[t].x
                          /\ new[k].y = towers[t].y + SHOT_Y_OFFSET
                          /\ new[k].target = sel.id
                          /\ new[k].tx = sel.x /\ new[k].ty = sel.y
                          /\ \E j \in 1..Len(enemies) :
                                /\ enemies[j] = sel
                                /\ WithinRange(towers[t], sel)]_vars
    /\ [][pc # "spawn_shots" =>
            Len(QueuedShots(commands')) <= Len(QueuedShots(commands))]_vars

\* one tower has completed its interval with an enemy in range and has queued
\* its shot; the other has completed its interval with no enemy in range and
\* has queued none
C10_Witness ==
    /\ pc = "move_shots_to_enemies"
    /\ Len(towers) = 2
    /\ towers[1].attack_speed.finished
    /\ towers[2].attack_speed.finished
    /\ Len(QueuedShots(commands)) = 1
    /\ \E t \in 1..2 : \A j \in 1..Len(enemies) : ~WithinRange(towers[t], enemies[j])

\* the commands queued by the step
NewCommands == SubSeq(commands', Len(commands) + 1, Len(commands'))

\* the entities whose removal the step queues
NewlyDespawned == DespawnedIds(NewCommands)

\* the shot's target entity is still in the enemy query
Resolves(s) == \E j \in 1..Len(enemies) : enemies[j].id = s.target

RECURSIVE RemovedDamage(_, _)
\* the summed damage of the first k shots that aim at enemy eid and whose removal
\* the step queues
RemovedDamage(k, eid) ==
    IF k = 0 THEN 0
    ELSE RemovedDamage(k - 1, eid)
         + (IF shots[k].target = eid /\ shots[k].id \in NewlyDespawned
            THEN shots[k].damage ELSE 0)

\* C11: a projectile subtracts its damage from an enemy at most once and is
\* removed in the tick in which it does so: in a tick of move_shots_to_enemies
\* an enemy loses no more life than the damage of the shots aimed at it whose
\* removal that tick queues, no other step changes the life of an enemy, a
\* queued removal stays queued until the commands are applied, and no shot
\* whose removal is queued survives their application.  A shot whose target is
\* gone takes no part in it.
C11_DamageOnce ==
    /\ [][pc = "move_shots_to_enemies" =>
            /\ Len(enemies') = Len(enemies)
            /\ \A j \in 1..Len(enemies) :
                  /\ enemies'[j].id = enemies[j].id
                  /\ enemies[j].life - enemies'[j].life
                        <= RemovedDamage(Len(shots), enemies[j].id)
            /\ \A k \in 1..Len(shots) :
                  ~Resolves(shots[k]) => shots[k].id \notin NewlyDespawned]_vars
    /\ [][pc # "move_shots_to_enemies" =>
            \A j \in 1..Len(enemies) : \A k \in 1..Len(enemies') :
                enemies'[k].id = enemies[j].id => enemies'[k].life = enemies[j].life]_vars
    /\ [][pc # "apply_deferred" =>
            /\ Len(commands') >= Len(commands)
            /\ SubSeq(commands', 1, Len(commands)) = commands]_vars
    /\ [][pc = "apply_deferred" =>
            \A k \in 1..Len(shots') : shots'[k].id \notin DespawnedIds(commands)]_vars

\* a shot has hit an enemy that survives: its removal is queued, the enemy has
\* lost life and another shot is still flying at the same enemy
C11_Witness ==
    /\ pc = "despawn_shots_with_killed_target"
    /\ \E k \in 1..Len(shots) :
          /\ shots[k].id \in DespawnedIds(commands)
          /\ \E j \in 1..Len(enemies) :
                /\ enemies[j].id = shots[k].target
                /\ enemies[j].life > 0
                /\ enemies[j].life < EnemyLife(wave_count)
          /\ \E m \in 1..Len(shots) :
                /\ shots[m].target = shots[k].target
                /\ shots[m].id \notin DespawnedIds(commands)

\* shot k ends the step within the hurt distance of its target
NearTarget(k) ==
    \E j \in 1..Len(enemies) :
        /\ enemies[j].id = shots[k].target
        /\ DistSq(shots'[k].x, shots'[k].y, enemies[j].x, enemies[j].y)
              <= SHOT_HURT_DISTANCE

\* shot k ends the step within the hurt distance with its frame counter at the
\* terminal frame
Gated(k) == NearTarget(k) /\ shots'[k].index >= LAST_SHOT_FRAME

RECURSIVE GatedDamage(_, _)
\* the summed damage of the first k shots that aim at enemy eid and pass the gate
GatedDamage(k, eid) ==
    IF k = 0 THEN 0
    ELSE GatedDamage(k - 1, eid)
         + (IF shots[k].target = eid /\ Gated(k) THEN shots[k].damage ELSE 0)

\* C12: in a tick of move_shots_to_enemies damage is applied by exactly the
\* shots that are within the hurt distance of their target with the frame
\* counter at the terminal frame 7, and exactly those shots are removed, whether
\* or not the enemy dies; the frame counter advances by one, only within the
\* hurt distance and only when the arming timer completes an interval, and no
\* other step advances it.
C12_DamageGate ==
    /\ [][pc = "move_shots_to_enemies" =>
            /\ Len(shots') = Len(shots)
            /\ \A j \in 1..Len(enemies) :
                  enemies'[j].life =
                      SaturatingSub(enemies[j].life,
                                    GatedDamage(Len(shots), enemies[j].id))
            /\ \A k \in 1..Len(shots) :
                  /\ shots'[k].id = shots[k].id
                  /\ shots[k].id \in NewlyDespawned <=> Gated(k)
                  /\ shots'[k].index \in { shots[k].index, shots[k].index + 1 }
                  /\ shots'[k].index > shots[k].index
                        => /\ NearTarget(k)
                           /\ shots[k].animation_timer.elapsed + delta
                                 >= SHOT_ANIMATION_TIME]_vars
    /\ [][pc # "move_shots_to_enemies" =>
            \A k \in 1..Len(shots) : \A m \in 1..Len(shots') :
                shots'[m].id = shots[k].id => shots'[m].index <= shots[k].index]_vars

\* a shot at the terminal frame has hit an enemy that survives and its removal
\* is queued, while another shot within the hurt distance of its target is
\* still short of the terminal frame and stays
C12_Witness ==
    /\ pc = "despawn_shots_with_killed_target"
    /\ \E k \in 1..Len(shots) :
          /\ shots[k].id \in DespawnedIds(commands)
          /\ shots[k].index >= LAST_SHOT_FRAME
          /\ \E j \in 1..Len(enemies) :
                enemies[j].id = shots[k].target /\ enemies[j].life > 0
    /\ \E k \in 1..Len(shots) :
          /\ shots[k].id \notin DespawnedIds(commands)
          /\ shots[k].index > 0
          /\ shots[k].index < LAST_SHOT_FRAME

\* where a lost shot k would be after this tick's movement towards the last
\* known position of its target
LostStep(k) ==
    LET mv == Movement(shots[k].x, shots[k].y, shots[k].tx, shots[k].ty, delta)
    IN  [x |-> shots[k].x + mv.x, y |-> shots[k].y + mv.y]

\* that position is within the arrival threshold of the last known position
Arrives(k) ==
    DistSq(LostStep(k).x, LostStep(k).y, shots[k].tx, shots[k].ty) <= ARRIVAL_DISTANCE

\* C13: a projectile whose target no longer resolves never changes an enemy's
\* life or the gold: move_shots_to_enemies leaves it as it is and queues nothing
\* for it, and despawn_shots_with_killed_target writes no enemy and no gold.
\* That system resets its frame counter to the first frame, keeps its target and
\* moves it towards the last known target position (onto that position when it
\* arrives within the arrival threshold), and queues its removal exactly when it
\* arrives or ends farther than DESPAWN_SHOT_RANGE from the origin; a shot whose
\* target resolves is left alone by it.
C13_LostTarget ==
    /\ [][pc = "move_shots_to_enemies" =>
            /\ \A k \in 1..Len(shots) :
                  ~Resolves(shots[k])
                     => shots'[k] = shots[k] /\ shots[k].id \notin NewlyDespawned
            /\ (\A k \in 1..Len(shots) : ~Resolves(shots[k]))
                  => enemies' = enemies /\ gold' = gold]_vars
    /\ [][pc = "despawn_shots_with_killed_target" =>
            /\ enemies' = enemies
            /\ gold' = gold
            /\ Len(shots') = Len(shots)
            /\ \A k \in 1..Len(shots) :
                  IF Resolves(shots[k])
                  THEN shots'[k] = shots[k] /\ shots[k].id \notin NewlyDespawned
                  ELSE /\ shots'[k].index = 0
                       /\ shots'[k].id = shots[k].id
                       /\ shots'[k].target = shots[k].target
                       /\ shots'[k].tx = shots[k].tx
                       /\ shots'[k].ty = shots[k].ty
                       /\ shots'[k].damage = shots[k].damage
                       /\ IF Arrives(k)
                          THEN shots'[k].x = shots[k].tx /\ shots'[k].y = shots[k].ty
                          ELSE shots'[k].x = LostStep(k).x /\ shots'[k].y = LostStep(k).y
                       /\ shots[k].id \in NewlyDespawned
                            <=> \/ Arrives(k)
                                \/ DistSq(shots'[k].x, shots'[k].y, 0, 0)
                                      > DESPAWN_SHOT_RANGE * DESPAWN_SHOT_RANGE]_vars

\* the shot's target is no longer in the enemy query
Lost(s) == \A j \in 1..Len(enemies) : enemies[j].id # s.target

\* a lost shot has flown past the despawn range and its removal is queued, and
\* another lost shot is still on its way
C13_Witness ==
    /\ pc = "game_over"
    /\ \E k \in 1..Len(shots) :
          /\ Lost(shots[k])
          /\ shots[k].id \in DespawnedIds(commands)
          /\ DistSq(shots[k].x, shots[k].y, 0, 0) > DESPAWN_SHOT_RANGE * DESPAWN_SHOT_RANGE
    /\ \E k \in 1..Len(shots) :
          /\ Lost(shots[k])
          /\ shots[k].id \notin DespawnedIds(commands)
          /\ shots[k].index = 0

\* C14: no step lowers the gold balance and no step raises the lives counter,
\* which never goes below 0.
C14_Economy ==
    /\ [](lifes >= 0 /\ lifes <= MAX_LIFES /\ gold >= INITIAL_PLAYER_GOLD)
    /\ [][gold' >= gold /\ lifes' <= lifes]_vars

\* kills have been paid and the last life has been lost
C14_Witness ==
    /\ gold > INITIAL_PLAYER_GOLD
    /\ lifes = 0
    /\ pc = "wave_control"

\* the positions in the enemy query of the enemies past the final threshold
PastThreshold == { j \in 1..Len(enemies) : enemies[j].y <= BREAK_POINTS[6].y }

\* C15: in a tick of game_over exactly the enemies with y <= BREAK_POINTS[5].y
\* have their removal queued and lives drops by 1 for each of them, stopping at
\* 0; no other step changes lives; an enemy past the threshold is either about
\* to be detected in the same tick or already queued for removal, and it is gone
\* once the commands are applied, so it costs a life once: lives is
\* max(0, 30 - n) after n breaches.
C15_Breach ==
    /\ [][pc = "game_over" =>
            /\ lifes' = Max(0, lifes - Cardinality(PastThreshold))
            /\ \A j \in 1..Len(enemies) :
                  enemies[j].id \in NewlyDespawned <=> j \in PastThreshold]_vars
    /\ [][pc # "game_over" => lifes' = lifes]_vars
    /\ [](\A j \in PastThreshold :
             \/ pc \in { "spawn_shots", "move_shots_to_enemies",
                         "despawn_shots_with_killed_target", "game_over" }
             \/ enemies[j].id \in DespawnedIds(commands))
    /\ [][pc = "apply_deferred" =>
            \A k \in 1..Len(enemies') : enemies'[k].id \notin DespawnedIds(commands)]_vars

\* an enemy past the threshold has cost a life and its removal is queued, while
\* another enemy is still on the path
C15_Witness ==
    /\ pc = "wave_control"
    /\ lifes < MAX_LIFES
    /\ lifes > 0
    /\ \E j \in PastThreshold : enemies[j].id \in DespawnedIds(commands)
    /\ \E j \in 1..Len(enemies) : j \notin PastThreshold

\* C16: when lives is 0 after game_over has run, the transition to GameOver is
\* signalled, the signal stands until it is applied, and it is applied; once the
\* phase is GameOver it stays GameOver, and in that phase no enemy and no shot
\* is queued for creation and no shot changes.
C16_GameOverTerminal ==
    /\ [][pc = "game_over" /\ lifes' = 0 => next_state' = "GameOver"]_vars
    /\ [][next_state = "GameOver" =>
            IF pc = "state_transition"
            THEN game_state' = "GameOver"
            ELSE next_state' = "GameOver"]_vars
    /\ [][game_state = "GameOver" =>
            /\ game_state' = "GameOver"
            /\ QueuedEnemies(commands') <= QueuedEnemies(commands)
            /\ Len(QueuedShots(commands')) <= Len(QueuedShots(commands))
            /\ shots' = shots
            /\ towers' = towers
            /\ pc' \notin { "spawn_wave", "move_enemies", "spawn_shots",
                            "move_shots_to_enemies", "despawn_shots_with_killed_target",
                            "wave_control" }]_vars

\* the game is over: the last life is lost, the enemies are gone and the shots
\* that were in flight stand still, frame after frame
C16_Witness ==
    /\ game_state = "GameOver"
    /\ pc = "apply_deferred"
    /\ lifes = 0
    /\ enemies = << >>
    /\ commands = << >>
    /\ shots # << >>

\* the shots that apply damage in this step and leave their target at life 0
KillingShots ==
    { k \in 1..Len(shots) :
        /\ Gated(k)
        /\ \E j \in 1..Len(enemies) :
              /\ enemies[j].id = shots[k].target
              /\ enemies[j].life <= GatedDamage(k, enemies[j].id) }

\* C17: in a tick of move_shots_to_enemies gold rises by 2 * (wave_count + 1)
\* for each projectile whose damage leaves its enemy at life 0, whatever the
\* life before the hit and the damage; a hit that leaves life above 0 pays
\* nothing, and no other step changes gold.
C17_KillReward ==
    /\ [][pc = "move_shots_to_enemies" =>
            gold' = gold + 2 * (wave_count + 1) * Cardinality(KillingShots)]_vars
    /\ [][pc # "move_shots_to_enemies" => gold' = gold]_vars

\* in the second wave a shot has hit without killing and has paid nothing after
\* the kills of the first wave were paid 2 each, and a later kill of the second
\* wave has been paid 4
C17_Witness ==
    /\ wave_count = 1
    /\ pc = "despawn_shots_with_killed_target"
    /\ gold = INITIAL_PLAYER_GOLD + 2 * MAX_ENEMIES_PER_WAVE + 4
    /\ \E j \in 1..Len(enemies) :
          enemies[j].life > 0 /\ enemies[j].life < EnemyLife(wave_count)

\* the wave indices spawn_wave can use
WaveIndices == 0..(NumTextures - 1)

\* C18: over the wave indices spawn_wave can use, the life and the speed given
\* to the enemies of a later wave are at least those of an earlier wave, the
\* speed is never above the cap 300, and the lives of waves 0, 1, 2 are 60, 120,
\* 240; every enemy spawn_wave queues carries the life and speed of the current
\* wave index.
C18_Difficulty ==
    /\ [](/\ \A w1, w2 \in WaveIndices :
                w2 > w1 => /\ EnemyLife(w2) >= EnemyLife(w1)
                           /\ EnemySpeed(w2) >= EnemySpeed(w1)
          /\ \A w \in WaveIndices : EnemySpeed(w) <= 300 * 1000
          /\ << EnemyLife(0), EnemyLife(1), EnemyLife(2) >> = << 60, 120, 240 >>)
    /\ [][QueuedEnemies(commands') > QueuedEnemies(commands) =>
            LET e == commands'[Len(commands')].e IN
            /\ wave_count \in WaveIndices
            /\ e.life = EnemyLife(wave_count)
            /\ e.speed = EnemySpeed(wave_count)]_vars

\* an enemy of the third wave is on the path with its full life of 240 and a
\* speed above the base speed
C18_Witness ==
    /\ wave_count = 2
    /\ \E j \in 1..Len(enemies) :
          enemies[j].life = 240 /\ enemies[j].speed > BASE_ENEMY_SPEED

\* C19: damage larger than the remaining life leaves life 0, never less; an
\* enemy is at life 0 only with its removal queued, which the same tick's
\* application of the commands carries out, so from the start of a tick up to
\* the projectile step every enemy has life >= 1; the projectile step queues the
\* removal of exactly the enemies it leaves at life 0, so an enemy hit with life
\* left above 0 stays.
C19_SaturationAndDeath ==
    /\ [](\A j \in 1..Len(enemies) :
             /\ enemies[j].life >= 0
             /\ enemies[j].life = 0 => enemies[j].id \in DespawnedIds(commands)
             /\ pc \in { "state_transition", "spawn_wave", "move_enemies",
                         "spawn_shots", "move_shots_to_enemies" }
                   => enemies[j].life >= 1)
    /\ [][pc = "move_shots_to_enemies" =>
            \A j \in 1..Len(enemies) :
                /\ GatedDamage(Len(shots), enemies[j].id) >= enemies[j].life
                      => enemies'[j].life = 0
                /\ enemies'[j].life = 0 <=> enemies[j].id \in NewlyDespawned]_vars
    /\ [][pc = "apply_deferred" =>
            \A k \in 1..Len(enemies') : enemies'[k].life >= 1]_vars

\* a shot whose damage exceeds the life of its enemy has left it at life 0 with
\* its removal queued
C19_Witness ==
    /\ pc = "despawn_shots_with_killed_target"
    /\ \E j \in 1..Len(enemies) :
          /\ enemies[j].life = 0
          /\ enemies[j].id \in DespawnedIds(commands)
          /\ \E k \in 1..Len(shots) :
                /\ shots[k].target = enemies[j].id
                /\ shots[k].id \in DespawnedIds(commands)
                /\ shots[k].damage > EnemyLife(wave_count)

\* C20: the transition from Attacking to Building runs
\* delete_all_shots_on_building, which queues the removal of every shot whatever
\* its state; so in the Building phase a shot exists only until the commands of
\* the transition are applied, and none afterwards.
C20_NoShotsInBuilding ==
    /\ [][game_state = "Attacking" /\ game_state' = "Building"
            => pc' = "delete_all_shots_on_building"]_vars
    /\ [][pc = "delete_all_shots_on_building" =>
            \A k \in 1..Len(shots) : shots[k].id \in DespawnedIds(commands')]_vars
    /\ [](game_state = "Building" =>
             \/ shots = << >>
             \/ pc = "delete_all_shots_on_building"
             \/ /\ pc = "apply_deferred"
                /\ \A k \in 1..Len(shots) : shots[k].id \in DespawnedIds(commands))

\* a wave has ended with shots still in flight, their targets gone: the removal
\* of each of them is queued
C20_Witness ==
    /\ game_state = "Building"
    /\ pc = "apply_deferred"
    /\ first_wave_spawned
    /\ Len(shots) >= 2
    /\ \A k \in 1..Len(shots) : shots[k].id \in DespawnedIds(commands)

\* the squared length of the i-th leg of the path, between BREAK_POINTS[i] and
\* BREAK_POINTS[i + 1]
LegSq(i) ==
    DistSq(BREAK_POINTS[i].x, BREAK_POINTS[i].y,
           BREAK_POINTS[i + 1].x, BREAK_POINTS[i + 1].y)

\* the enemy steps less per frame than the length of any leg of the path
ShortStride(e) ==
    \A i \in 1..(Len(BREAK_POINTS) - 1) : Stride(e, delta) * Stride(e, delta) < LegSq(i)

\* C21: an enemy is created at the spawn location with segment index 0, its
\* segment index is always one of 0..5, and no step lowers the segment index of
\* an enemy that stays in the simulation.
C21_SegmentIndexMonotone ==
    /\ [](/\ \A j \in 1..Len(enemies) :
                enemies[j].lvl \in 0..(Len(BREAK_POINTS) - 1)
          /\ \A c \in 1..Len(commands) :
                commands[c].op = "spawn_enemy"
                   => /\ commands[c].e.lvl = 0
                      /\ commands[c].e.x = SPAWN_X_LOCATION
                      /\ commands[c].e.y = SPAWN_Y_LOCATION)
    /\ [][\A j \in 1..Len(enemies) : \A k \in 1..Len(enemies') :
              enemies'[k].id = enemies[j].id
                 => enemies'[k].lvl >= enemies[j].lvl]_vars

\* enemies stepping less than any leg of the path are on every segment of it,
\* one of them on the last leg after passing the five before it
C21_Witness ==
    /\ pc = "game_over"
    /\ \A l \in 0..(Len(BREAK_POINTS) - 1) :
          \E j \in 1..Len(enemies) :
              /\ enemies[j].lvl = l
              /\ ShortStride(enemies[j])
              /\ ~Breached(enemies[j])

\* C22: a tick of spawn_wave queues at most one enemy, also when its elapsed
\* time covers several spawn intervals, and no other step queues one; the enemy
\* queued starts at the spawn location with segment index 0 and with the life
\* and speed of the current wave_count, and spawned_count_in_wave grows by
\* exactly the number of enemies queued.  In a game without towers every entity
\* is an enemy, so the count is the number of entities created since the wave
\* began.
C22_SpawnOnePerTick ==
    /\ [][pc = "spawn_wave" =>
            /\ QueuedEnemies(commands') - QueuedEnemies(commands) \in {0, 1}
            /\ spawned_count_in_wave' - spawned_count_in_wave
                  = QueuedEnemies(commands') - QueuedEnemies(commands)
            /\ next_entity' - next_entity
                  = QueuedEnemies(commands') - QueuedEnemies(commands)
            /\ QueuedEnemies(commands') > QueuedEnemies(commands) =>
                  commands'[Len(commands')].e =
                      [ id |-> next_entity,
                        x |-> SPAWN_X_LOCATION, y |-> SPAWN_Y_LOCATION,
                        life |-> EnemyLife(wave_count),
                        speed |-> EnemySpeed(wave_count), lvl |-> 0 ]]_vars
    /\ [][pc # "spawn_wave" =>
            /\ QueuedEnemies(commands') <= QueuedEnemies(commands)
            /\ spawned_count_in_wave' \in {spawned_count_in_wave, 0}]_vars
    /\ [](game_state # "GameOver" =>
             spawned_count_in_wave
                = (next_entity - 1) - MAX_ENEMIES_PER_WAVE * wave_count)

\* a tick of spawn_wave whose elapsed time covered two spawn intervals has
\* queued one enemy of the second wave
C22_Witness ==
    /\ pc = "move_enemies"
    /\ time_between_spawns.times >= 2
    /\ QueuedEnemies(commands) = 1
    /\ wave_count = 1
    /\ spawned_count_in_wave > 1

\* no enemy is in the simulation or about to enter it
C23_AllGone == enemies = << >> /\ QueuedEnemies(commands) = 0

\* the loop over the waves the archetype table covers: with lives left and
\* every enemy eventually gone, the Attacking phase of wave w ends in Building
\* with the quota spawned, and Building leads to the Attacking phase of wave
\* w + 1
C23_LoopBelowTable ==
    ([](lifes > 0) /\ []<>C23_AllGone)
       => \A w \in 0..(NumTextures - 1) :
             /\ (game_state = "Attacking" /\ wave_count = w)
                   ~> (/\ game_state = "Building"
                       /\ wave_count = w
                       /\ spawned_count_in_wave = MAX_ENEMIES_PER_WAVE)
             /\ (/\ game_state = "Building"
                 /\ wave_count = w
                 /\ spawned_count_in_wave = MAX_ENEMIES_PER_WAVE)
                   ~> (game_state = "Attacking" /\ wave_count = w + 1)

\* C23: every Attacking phase ends.  In a game whose lives stay above 0 and in
\* which every enemy is eventually killed or breaches, for every wave number w
\* that is reached the Attacking phase of wave w leads to Building with the
\* quota of 25 spawned, and that Building phase leads to the Attacking phase of
\* wave w + 1.
C23_EveryAttackingPhaseEnds ==
    ([](lifes > 0) /\ []<>C23_AllGone)
       => \A w \in 0..NumTextures :
             /\ (game_state = "Attacking" /\ wave_count = w)
                   ~> (/\ game_state = "Building"
                       /\ wave_count = w
                       /\ spawned_count_in_wave = MAX_ENEMIES_PER_WAVE)
             /\ (/\ game_state = "Building"
                 /\ wave_count = w
                 /\ spawned_count_in_wave = MAX_ENEMIES_PER_WAVE)
                   ~> (game_state = "Attacking" /\ wave_count = w + 1)

\* the Attacking phase of wave 4 with every life left: spawn_wave has run and
\* has spawned nothing, no enemy exists and none was counted
C23_Witness ==
    /\ game_state = "Attacking"
    /\ wave_count = NumTextures
    /\ pc = "move_enemies"
    /\ C23_AllGone
    /\ spawned_count_in_wave = 0
    /\ lifes = MAX_LIFES

\* the step changes shot k or queues its removal
Handled(k) == shots'[k] # shots[k] \/ shots[k].id \in NewlyDespawned

\* the entities in the enemy query
EnemyIds(es) == { es[j].id : j \in 1..Len(es) }

\* C24: within a tick a projectile is handled by one of the two projectile
\* systems only.  move_shots_to_enemies changes or removes only shots whose
\* target resolves, despawn_shots_with_killed_target only shots whose target
\* does not; the second runs right after the first on the same set of enemy
\* entities, the enemies killed in the tick included, so the target of a shot
\* resolves for both or for neither; and no shot is queued for removal twice in
\* one tick.
C24_DisjointShotSets ==
    /\ [][pc = "move_shots_to_enemies" =>
            /\ Len(shots') = Len(shots)
            /\ \A k \in 1..Len(shots) : Handled(k) => Resolves(shots[k])
            /\ EnemyIds(enemies') = EnemyIds(enemies)
            /\ pc' = "despawn_shots_with_killed_target"]_vars
    /\ [][pc = "despawn_shots_with_killed_target" =>
            /\ Len(shots') = Len(shots)
            /\ \A k \in 1..Len(shots) : Handled(k) => ~Resolves(shots[k])]_vars
    /\ [](\A c1, c2 \in 1..Len(commands) :
             /\ c1 < c2
             /\ commands[c1].op = "despawn"
             /\ commands[c2].op = "despawn"
             /\ commands[c1].id = commands[c2].id
             => \A k \in 1..Len(shots) : shots[k].id # commands[c1].id)

\* both systems have run in the tick in which an enemy was killed: another
\* shot aimed at that enemy was advanced by the live-target system and left
\* alone by the lost-target system, which has moved a shot whose target is gone
C24_Witness ==
    /\ pc = "game_over"
    /\ \E j \in 1..Len(enemies) :
          /\ enemies[j].life = 0
          /\ \E k \in 1..Len(shots) :
                /\ shots[k].target = enemies[j].id
                /\ shots[k].id \notin DespawnedIds(commands)
                /\ shots[k].index > 0
    /\ \E k \in 1..Len(shots) : Lost(shots[k]) /\ shots[k].index = 0

\* C25: a tick of move_enemies changes nothing but the positions and the
\* segment indices of the enemies: the enemy query keeps its entities in their
\* order, each with its life and speed, and the wave state, gold, lives, the
\* phase and its signal, the shots, the towers and the queued commands are as
\* they were.
C25_MoveEnemiesFrame ==
    [][pc = "move_enemies" =>
         /\ Len(enemies') = Len(enemies)
         /\ \A j \in 1..Len(enemies) :
               /\ enemies'[j].id = enemies[j].id
               /\ enemies'[j].life = enemies[j].life
               /\ enemies'[j].speed = enemies[j].speed
         /\ wave_count' = wave_count
         /\ spawned_count_in_wave' = spawned_count_in_wave
         /\ first_wave_spawned' = first_wave_spawned
         /\ time_between_waves' = time_between_waves
         /\ time_between_spawns' = time_between_spawns
         /\ gold' = gold
         /\ lifes' = lifes
         /\ game_state' = game_state
         /\ next_state' = next_state
         /\ shots' = shots
         /\ towers' = towers
         /\ commands' = commands
         /\ next_entity' = next_entity]_vars

\* move_enemies has run on a damaged enemy and has taken another past the final
\* threshold, with shots in flight
C25_Witness ==
    /\ pc = "spawn_shots"
    /\ shots # << >>
    /\ \E j \in 1..Len(enemies) : Breached(enemies[j])
    /\ \E j \in 1..Len(enemies) :
          /\ enemies[j].life < EnemyLife(wave_count)
          /\ enemies[j].lvl > 0

\* the number of commands of the step that ask for the removal of entity id
RemovalRequests(id) ==
    Cardinality({ c \in 1..Len(NewCommands) :
                     NewCommands[c] = [op |-> "despawn", id |-> id] })

\* the enemies that the step takes from a life above 0 to life 0
KilledNow ==
    { j \in 1..Len(enemies) : enemies[j].life > 0 /\ enemies'[j].life = 0 }

\* C26: each killed enemy is rewarded once: in a tick of move_shots_to_enemies
\* gold rises by one reward, 2 * (wave_count + 1), for each enemy whose life
\* the tick takes to 0, and the removal of an enemy is requested at most
\* once, however many shots aimed at it reach their terminal frame in the tick.
C26_RewardedOnce ==
    [][pc = "move_shots_to_enemies" =>
          /\ gold' = gold + 2 * (wave_count + 1) * Cardinality(KilledNow)
          /\ \A j \in 1..Len(enemies) : RemovalRequests(enemies[j].id) <= 1]_vars

\* two shots aimed at the same enemy have both hit it in one tick: the enemy is
\* at life 0 with two requests for its removal, and the removal of both shots
\* is queued
C26_Witness ==
    /\ pc = "despawn_shots_with_killed_target"
    /\ \E j \in 1..Len(enemies) :
          /\ enemies[j].life = 0
          /\ ~Breached(enemies[j])
          /\ \E c1, c2 \in 1..Len(commands) :
                /\ c1 < c2
                /\ commands[c1] = [op |-> "despawn", id |-> enemies[j].id]
                /\ commands[c2] = commands[c1]
          /\ \E k, m \in 1..Len(shots) :
                /\ k < m
                /\ shots[k].target = enemies[j].id
                /\ shots[m].target = enemies[j].id
                /\ shots[k].id \in DespawnedIds(commands)
                /\ shots[m].id \in DespawnedIds(commands)

\* the enemies past the final threshold that no shot has killed
LiveBreaches ==
    { j \in 1..Len(enemies) : Breached(enemies[j]) /\ enemies[j].life > 0 }

\* C27: each enemy leaves by exactly one cause: an enemy that a shot has taken
\* to life 0, and so has paid its kill reward, costs no life in game_over and
\* is not asked to be removed a second time there, also when it is past the
\* final threshold in the tick of the hit; lifes falls by one for each breached
\* enemy still alive and by nothing else.
C27_OneCause ==
    [][pc = "game_over" =>
          /\ lifes' = SaturatingSub(lifes, Cardinality(LiveBreaches))
          /\ \A j \in 1..Len(enemies) :
                enemies[j].life = 0 => enemies[j].id \notin NewlyDespawned]_vars

\* an enemy past the final threshold was killed in the frame of its breach: it
\* is at life 0 after game_over, a life is gone, and its removal has been
\* requested by the hit and by the breach
C27_Witness ==
    /\ pc = "wave_control"
    /\ lifes < MAX_LIFES
    /\ gold > INITIAL_PLAYER_GOLD
    /\ \E j \in 1..Len(enemies) :
          /\ enemies[j].life = 0
          /\ Breached(enemies[j])
          /\ \E c1, c2 \in 1..Len(commands) :
                /\ c1 < c2
                /\ commands[c1] = [op |-> "despawn", id |-> enemies[j].id]
                /\ commands[c2] = commands[c1]

\* C28: a tick of spawn_wave with wave_count at the length of the archetype
\* table queues nothing and leaves the spawn timer, the count and the entity
\* counter alone, so an enemy is queued only with wave_count below the table
\* length; and wave_count never exceeds the table length.
C28_TableBound ==
    /\ [][pc = "spawn_wave" /\ wave_count = NumTextures =>
            UNCHANGED << commands, time_between_spawns, spawned_count_in_wave,
                         next_entity >>]_vars
    /\ [][pc = "spawn_wave" /\ QueuedEnemies(commands') > QueuedEnemies(commands) =>
            wave_count < NumTextures]_vars
    /\ [](wave_count <= NumTextures)

\* spawn_wave has run with wave_count at the table length after every enemy of
\* the table's waves was created: nothing is queued and the count is 0
C28_Witness ==
    /\ pc = "move_enemies"
    /\ wave_count = NumTextures
    /\ next_entity > MAX_ENEMIES_PER_WAVE * NumTextures
    /\ QueuedEnemies(commands) = 0
    /\ spawned_count_in_wave = 0
    /\ ~TimerJustFinished(time_between_spawns)

\* the entity ids of the enemies of two waves
EnemyIdRange == 1..(2 * MAX_ENEMIES_PER_WAVE)

\* entity id is an enemy in the simulation
InPlay(id) == \E j \in 1..Len(enemies) : enemies[j].id = id

\* entity id is an enemy past the final threshold whose removal is queued
BreachedOut(id) ==
    \E j \in 1..Len(enemies) :
        /\ enemies[j].id = id
        /\ Breached(enemies[j])
        /\ id \in DespawnedIds(commands)

InitialWaveState ==
    /\ wave_count = 0
    /\ spawned_count_in_wave = 0
    /\ time_between_spawns.elapsed = 0
    /\ ~TimerJustFinished(time_between_spawns)
    /\ ~TimerPaused(time_between_waves)
    /\ time_between_waves.elapsed = 0
    /\ ~TimerJustFinished(time_between_waves)
    /\ ~first_wave_spawned

\* C30: reset_wave_control_on_game_over leaves wave_count 0, the count 0, the
\* spawn timer reset, the cooldown unpaused at zero elapsed time and the
\* first-wave flag false; the wave state stays so while the phase is GameOver,
\* where the wave-completion condition does not hold, and once the commands of
\* despawn_all_enemies_in_game_over are applied no enemy exists.
C30_ResetOnGameOver ==
    /\ [][pc = "reset_wave_control_on_game_over" =>
            /\ wave_count' = 0
            /\ spawned_count_in_wave' = 0
            /\ time_between_spawns' = NewTimer
            /\ time_between_waves' = NewTimer
            /\ first_wave_spawned' = FALSE]_vars
    /\ [](game_state = "GameOver" /\ pc # "reset_wave_control_on_game_over" =>
             /\ InitialWaveState
             /\ ~complete(spawned_count_in_wave, enemies))
    /\ [][pc = "despawn_all_enemies_in_game_over" =>
            \A j \in 1..Len(enemies) : enemies[j].id \in NewlyDespawned]_vars
    /\ [](game_state = "GameOver" /\ pc = "state_transition" => enemies = << >>)

\* the game was lost in the second wave with enemies on the path: the reset has
\* run, the wave state is that of a new game and the enemies are still to be
\* removed
C30_Witness ==
    /\ game_state = "GameOver"
    /\ pc = "despawn_all_enemies_in_game_over"
    /\ lifes = 0
    /\ towers = << >>
    /\ next_entity > MAX_ENEMIES_PER_WAVE + 1
    /\ enemies # << >>
    /\ InitialWaveState

\* the ticks within which a lost shot is to be gone: a shot inside the maximum
\* radius is at most 2 * DESPAWN_SHOT_RANGE from the last known position, which
\* the shortest stride drawn (700 px/s * 50 ms = 35 px) covers in 46 ticks
MaxLostTicks == 48

RECURSIVE RemovedWithin(_, _)
\* the removal of lost shot s is queued within n further ticks of
\* despawn_shots_with_killed_target
RemovedWithin(s, n) ==
    IF n = 0 THEN FALSE
    ELSE LET r == LostShot(s, enemies, delta) IN
         r.despawn \/ RemovedWithin(r.shot, n - 1)

\* lost shot s is not removed by its next two ticks and is back where it is
\* after them
BackAndForth(s) ==
    LET a == LostShot(s, enemies, delta)
        b == LostShot(a.shot, enemies, delta)
    IN  /\ ~a.despawn
        /\ ~b.despawn
        /\ << a.shot.x, a.shot.y >> # << s.x, s.y >>
        /\ << b.shot.x, b.shot.y >> = << s.x, s.y >>

\* C31: every lost-target projectile is removed after finitely many ticks:
\* whenever despawn_shots_with_killed_target is about to run, each shot whose
\* target is gone and whose position is a number is within the arrival
\* threshold of the last known position, or beyond the maximum radius, after
\* at most MaxLostTicks ticks of the system at the frame time of the game.
C31_LostShotRemoved ==
    pc = "despawn_shots_with_killed_target" =>
        \A k \in 1..Len(shots) :
            Lost(shots[k]) /\ ~shots[k].nan => RemovedWithin(shots[k], MaxLostTicks)

\* a lost shot steps over the last known position of its target and back: two
\* ticks of the system return it to where it is, neither within the arrival
\* threshold nor beyond the maximum radius
C31_Witness ==
    /\ pc = "despawn_shots_with_killed_target"
    /\ game_state = "Attacking"
    /\ \E k \in 1..Len(shots) :
          /\ Lost(shots[k])
          /\ ~shots[k].nan
          /\ BackAndForth(shots[k])
          /\ ~RemovedWithin(shots[k], MaxLostTicks)

====
